---- MODULE Spec2Model ----
(***************************************************************************)
(* A model of fuzztheory: the synthetic target generator (src/src/main.rs, *)
(* proggen) and the simulated multi-worker fuzzing engine (src/harness.rs, *)
(* Fuzzer::start).                                                         *)
(*                                                                         *)
(* Randomness.  Both programs draw from an xorshift Rng.  A call of        *)
(* rng.rand() is modelled as a raw value drawn from a small set; the code's*)
(* own arithmetic (% IF_CHANCE, % 8 + 1, as u8, & mask ...) is then applied*)
(* to the raw value.  An Rng state is represented by the stream of values  *)
(* it will return.                                                         *)
(***************************************************************************)
EXTENDS Integers, Sequences, FiniteSets, TLC

VARIABLES
    \* ---- proggen (src/src/main.rs) ----
    used_bits,       \* BTreeSet of claimed bit indices            (line 30)
    depth,           \* nesting depth                              (line 125)
    num_blocks,      \* number of coverage sites emitted           (line 128)
    num_crashes,     \* number of crash sites emitted              (line 131)
    alloc_failures,  \* failed bit allocations                     (line 180)
    program,         \* the emitted body of crashme, as tokens     (line 25)
    consts,          \* the emitted NUM_CRASHES/NUM_COVERAGE/NUM_BYTES (253-256)
    gpc,             \* position of proggen in its loop
    allocs,          \* history: what each find_unused_bits! call returned
    min_blocks,      \* MIN_BLOCKS of this build                   (line 66)
    min_crashes,     \* MIN_CRASHES of this build                  (line 62)
    \* ---- Fuzzer (src/harness.rs) ----
    fz               \* the Fuzzer objects, each with the locals of start()

vars == <<used_bits, depth, num_blocks, num_crashes, alloc_failures, program,
          consts, gpc, allocs, min_blocks, min_crashes, fz>>

genvars == <<used_bits, depth, num_blocks, num_crashes, alloc_failures,
             program, consts, gpc, allocs, min_blocks, min_crashes>>

(***************************************************************************)
(* Bounds of the model.                                                    *)
(***************************************************************************)
\* MAX_INPUT_SIZE_BITS is 256 in the source (main.rs:35); the model keeps
\* bytes 8 bits wide and shrinks the number of bytes.
MAX_INPUT_SIZE_BITS == 9
\* The search timeout passed to find_unused_bits! is 1000 (main.rs:186).
FIND_TIMEOUT == 2
\* At most this many predicates are opened in one generation.
MaxIfs == 2
\* MAX_SIMULATED_CORES is 2001 in the source (harness.rs:8).
MAX_SIMULATED_CORES == 2
\* The mutation count is rand() % 8 + 1 in the source (harness.rs:136).
MUT_MOD == 1
\* Lifetime cap on Fuzzer::fuzz_cases: the evaluator calls of one Fuzzer.
MaxFuzzCases == 4
\* Time constraints considered: k/2 for k in 0..MaxTimeNum, and none.
MaxTimeNum == 2
\* Evaluator calls of the earlier runs of a Fuzzer that is started again.
MaxHistCases == 2
\* Iterations followed when two runs are compared side by side.
MaxPairCases == 2

(***************************************************************************)
(* Program constants of proggen, with the source's values.                 *)
(***************************************************************************)
IF_CHANCE == 4
END_BLOCK_CHANCE == 4
CRASH_CHANCE == 8
NON_COVERAGE_CRASH_CHANCE == 16
DONE_CHANCE == 128
MAX_ALLOC_FAILURES == 1
\* a byte has 8 bits: the width draw is rand() % 8 + 1 (main.rs:186)
WIDTH_MOD == 8

\* Raw values of rng.rand() for the "one in N" draws: 0 hits, 1 misses.
RawChance == {0, 1}
\* Raw values for the width draw rand() % 8 + 1: widths 1 and 8.
RawWidth == {0, 7}
\* Raw values for the start-bit draw rand() % MAX_INPUT_SIZE_BITS.
RawStart == {r \in 0 .. (8 * ((MAX_INPUT_SIZE_BITS + 7) \div 8) - 1) : r % 8 \in {0, 7}}
\* Raw values for the target draw rand() as u8.
RawTarget == {255}
\* The builds of proggen considered: (MIN_BLOCKS, MIN_CRASHES).
Builds == {<<0, 0>>, <<2, 1>>, <<5000, 200>>}

(***************************************************************************)
(* u8 arithmetic.                                                          *)
(***************************************************************************)
Pow2(n) == 2 ^ n

\* x << k on a u8 (bits shifted out are lost), k < 8
Shl8(x, k) == (x * Pow2(k)) % 256

\* x >> k on a u8
Shr8(x, k) == x \div Pow2(k)

Bit(x, i) == (x \div Pow2(i)) % 2

\* a & b on u8
And8(a, b) ==
    LET RECURSIVE S(_)
        S(i) == IF i > 7 THEN 0
                ELSE Bit(a, i) * Bit(b, i) * Pow2(i) + S(i + 1)
    IN  S(0)

\* rand() as u8
AsU8(raw) == raw % 256

(***************************************************************************)
(* find_unused_bits! (main.rs:83-122).  The set of results the macro can   *)
(* produce from `used`, over every sequence of start-bit draws: the loop   *)
(* is followed draw by draw, `iters` counting the draws made so far.       *)
(***************************************************************************)
None == [found |-> FALSE, start |-> 0, end |-> 0]

Some(s, e) == [found |-> TRUE, start |-> s, end |-> e]

\* line 102-105: bit overflow or bits spanning a byte boundary
BadSlice(bit_start, bit_end) ==
    \/ bit_end >= MAX_INPUT_SIZE_BITS
    \/ (bit_start \div 8) # (bit_end \div 8)

\* mutant: only the first bit of the slice is looked up
SliceUsed_FirstBitOnly(used, bit_start, bit_end) == bit_start \in used

\* line 108-112: some bit of the slice is used
SliceUsed(used, bit_start, bit_end) ==
    \E bit \in bit_start .. bit_end : bit \in used

\* mutant: the scan inserts each free bit as it goes, so a slice rejected
\* at a used bit leaves the bits before it marked
RECURSIVE FindLoop_InsertWhileScanning(_, _, _, _)
FindLoop_InsertWhileScanning(used, nbits, timeout, iters) ==
    IF iters >= timeout
    THEN {[ret |-> None, used |-> used]}
    ELSE UNION {
           LET bit_start == raw % MAX_INPUT_SIZE_BITS
               bit_end   == bit_start + nbits - 1
               scanned   == {b \in bit_start .. bit_end :
                               \A c \in bit_start .. b : c \notin used}
           IN  IF BadSlice(bit_start, bit_end)
               THEN FindLoop_InsertWhileScanning(used, nbits, timeout, iters + 1)
               ELSE IF SliceUsed(used, bit_start, bit_end)
               THEN FindLoop_InsertWhileScanning(used \cup scanned, nbits, timeout, iters + 1)
               ELSE {[ret  |-> Some(bit_start, bit_end),
                      used |-> used \cup (bit_start .. bit_end)]}
           : raw \in RawStart }

RECURSIVE FindLoop(_, _, _, _)
FindLoop(used, nbits, timeout, iters) ==
    IF iters >= timeout
    THEN {[ret |-> None, used |-> used]}
    ELSE UNION {
           LET bit_start == raw % MAX_INPUT_SIZE_BITS
               bit_end   == bit_start + nbits - 1
           IN  IF BadSlice(bit_start, bit_end)
               THEN FindLoop(used, nbits, timeout, iters + 1)
               ELSE IF SliceUsed(used, bit_start, bit_end)
               THEN FindLoop(used, nbits, timeout, iters + 1)
               ELSE {[ret  |-> Some(bit_start, bit_end),
                      used |-> used \cup (bit_start .. bit_end)]}
           : raw \in RawStart }

find_unused_bits(used, nbits, timeout) == FindLoop(used, nbits, timeout, 0)

(***************************************************************************)
(* The emitted program: a sequence of tokens.                              *)
(*   cov   a = site id        if _coverage[a] == 0 {push}; _coverage[a]+=1 *)
(*   crash a = site id        same on _crashes, then return                *)
(*   if    a = byte, b = mask, c = target     if _input[a] & b == c {      *)
(*   end                                      }                            *)
(***************************************************************************)
Tok(op, a, b, c) == [op |-> op, a |-> a, b |-> b, c |-> c]

\* mutant: coverage! without num_blocks += 1
coverage_emit_NoIncrement(g) ==
    [g EXCEPT !.program = Append(@, Tok("cov", g.num_blocks, 0, 0))]

\* coverage! (main.rs:138-148): emits site num_blocks, then num_blocks += 1
coverage_emit(g) ==
    [g EXCEPT !.program    = Append(@, Tok("cov", g.num_blocks, 0, 0)),
              !.num_blocks = @ + 1]

\* mutant: crash! without num_crashes += 1
crash_emit_NoIncrement(g) ==
    [g EXCEPT !.program = Append(@, Tok("crash", g.num_crashes, 0, 0))]

\* crash! (main.rs:152-169): emits site num_crashes and a return
crash_emit(g) ==
    [g EXCEPT !.program     = Append(@, Tok("crash", g.num_crashes, 0, 0)),
              !.num_crashes = @ + 1]

\* depth -= 1; tab!(); program += "}\n"  (main.rs:210-212, 233-235, 245-247)
close_block(g) ==
    [g EXCEPT !.depth = @ - 1, !.program = Append(@, Tok("end", 0, 0, 0))]

\* main.rs:193-194: the byte mask of bits start_bit..end_bit
ByteMask(start_bit, end_bit) ==
    LET mask1 == Shl8(Shr8(255, start_bit), start_bit)
    IN  Shr8(Shl8(mask1, 7 - end_bit), 7 - end_bit)

\* mutant: the predicate is emitted without depth += 1
open_predicate_NoDepth(g, start, end, rawtarget) ==
    LET mask   == ByteMask(start % 8, end % 8)
        target == And8(AsU8(rawtarget), mask)
    IN  [g EXCEPT !.program = Append(@, Tok("if", start \div 8, mask, target))]

\* main.rs:188-204: the predicate opened for an allocated slice
open_predicate(g, start, end, rawtarget) ==
    LET start_byte == start \div 8
        start_bit  == start % 8
        end_bit    == end % 8
        mask       == ByteMask(start_bit, end_bit)
        target     == And8(AsU8(rawtarget), mask)
    IN  [g EXCEPT !.program = Append(@, Tok("if", start_byte, mask, target)),
                  !.depth   = @ + 1]

\* The generator's mutable locals as one record.
G == [program |-> program, depth |-> depth, num_blocks |-> num_blocks,
      num_crashes |-> num_crashes]

SetG(g) ==
    /\ program' = g.program
    /\ depth' = g.depth
    /\ num_blocks' = g.num_blocks
    /\ num_crashes' = g.num_crashes

NumIfs == Cardinality({i \in 1 .. Len(program) : program[i].op = "if"})

\* main.rs:256
\* main.rs:256: ((MAX_INPUT_SIZE_BITS + 7) & !7) / 8
NumBytes == (((MAX_INPUT_SIZE_BITS + 7) \div 8) * 8) \div 8

NoConsts == [set |-> FALSE, NUM_CRASHES |-> 0, NUM_COVERAGE |-> 0, NUM_BYTES |-> 0]

(***************************************************************************)
(* proggen: state at loop entry (main.rs:22-31, 125-131, 173-180).         *)
(***************************************************************************)
GenStart(build) ==
    LET g0 == [program |-> <<>>, depth |-> 1, num_blocks |-> 0, num_crashes |-> 0]
        g1 == coverage_emit(g0)                       \* line 177
    IN  /\ used_bits = {}
        /\ program = g1.program
        /\ depth = g1.depth
        /\ num_blocks = g1.num_blocks
        /\ num_crashes = g1.num_crashes
        /\ alloc_failures = 0
        /\ consts = NoConsts
        /\ allocs = <<>>
        /\ gpc = "if"
        /\ min_blocks = build[1]
        /\ min_crashes = build[2]

\* main.rs:184-224: random chance to generate an if statement
GenIf ==
    /\ gpc = "if"
    /\ \E r_if \in RawChance :
         IF r_if % IF_CHANCE = 0
         THEN /\ NumIfs < MaxIfs
              /\ \E r_w \in RawWidth :
                 \E res \in find_unused_bits(used_bits, (r_w % WIDTH_MOD) + 1, FIND_TIMEOUT) :
                   /\ used_bits' = res.used
                   /\ allocs' = Append(allocs, res.ret)
                   /\ IF res.ret.found
                      THEN /\ \E r_t \in RawTarget, r_ncc \in RawChance :
                                LET g1 == open_predicate(G, res.ret.start, res.ret.end, r_t)
                                IN  IF r_ncc % NON_COVERAGE_CRASH_CHANCE = 0
                                    THEN SetG(close_block(crash_emit(g1)))
                                    ELSE SetG(coverage_emit(g1))
                           /\ alloc_failures' = alloc_failures
                           /\ gpc' = "end"
                      ELSE /\ alloc_failures' = alloc_failures + 1
                           /\ gpc' = IF alloc_failures + 1 >= MAX_ALLOC_FAILURES
                                     THEN "close" ELSE "end"
                           /\ UNCHANGED <<program, depth, num_blocks, num_crashes>>
         ELSE /\ gpc' = "end"
              /\ UNCHANGED <<used_bits, allocs, alloc_failures, program, depth,
                             num_blocks, num_crashes>>
    /\ UNCHANGED <<consts, min_blocks, min_crashes, fz>>

\* mutant: the crash emitted at the end of a block leaves the block open
GenEndBlock_CrashKeepsOpen ==
    /\ gpc = "end"
    /\ \E r_e \in RawChance, r_c \in RawChance :
         IF depth > 1 /\ r_e % END_BLOCK_CHANCE = 0
         THEN IF r_c % CRASH_CHANCE = 0
              THEN SetG(crash_emit(G))
              ELSE SetG(close_block(G))
         ELSE UNCHANGED <<program, depth, num_blocks, num_crashes>>
    /\ gpc' = "done"
    /\ UNCHANGED <<used_bits, allocs, alloc_failures, consts, min_blocks,
                   min_crashes, fz>>

\* main.rs:226-236: random chance to de-tab
GenEndBlock ==
    /\ gpc = "end"
    /\ \E r_e \in RawChance, r_c \in RawChance :
         IF depth > 1 /\ r_e % END_BLOCK_CHANCE = 0
         THEN IF r_c % CRASH_CHANCE = 0
              THEN SetG(close_block(crash_emit(G)))
              ELSE SetG(close_block(G))
         ELSE UNCHANGED <<program, depth, num_blocks, num_crashes>>
    /\ gpc' = "done"
    /\ UNCHANGED <<used_bits, allocs, alloc_failures, consts, min_blocks,
                   min_crashes, fz>>

\* main.rs:238-240: random chance to end the loop; draws are the raw values
\* the done draw can take
GenDoneDraw(draws) ==
    /\ gpc = "done"
    /\ \E r_d \in draws :
         gpc' = IF /\ num_crashes >= min_crashes
                   /\ num_blocks >= min_blocks
                   /\ r_d % DONE_CHANCE = 0
                THEN "close" ELSE "if"
    /\ UNCHANGED <<used_bits, allocs, alloc_failures, program, depth, num_blocks,
                   num_crashes, consts, min_blocks, min_crashes, fz>>

GenDone == GenDoneDraw(RawChance)

\* mutant: the open blocks are left open
CloseAll_None(g) == g

\* main.rs:244-248: while depth > 1 { depth -= 1; "}" }
RECURSIVE CloseAll(_)
CloseAll(g) == IF g.depth > 1 THEN CloseAll(close_block(g)) ELSE g

\* main.rs:243-256: clean out brackets, end the program, emit the constants
GenFinish ==
    /\ gpc = "close"
    /\ SetG(CloseAll(G))
    /\ consts' = [set |-> TRUE, NUM_CRASHES |-> num_crashes,
                  NUM_COVERAGE |-> num_blocks, NUM_BYTES |-> NumBytes]
    /\ gpc' = "exit"
    /\ UNCHANGED <<used_bits, allocs, alloc_failures, min_blocks, min_crashes, fz>>


(***************************************************************************)
(* crashme: the evaluator proggen emits (main.rs:138-169, 173-175,         *)
(* 200-203), run on the token form of the program.                         *)
(***************************************************************************)
\* The index after the "end" closing the block whose body starts at i.
RECURSIVE SkipBlock(_, _, _)
SkipBlock(prog, i, nest) ==
    IF i > Len(prog) THEN i
    ELSE IF prog[i].op = "if" THEN SkipBlock(prog, i + 1, nest + 1)
    ELSE IF prog[i].op = "end"
         THEN IF nest = 1 THEN i + 1 ELSE SkipBlock(prog, i + 1, nest - 1)
    ELSE SkipBlock(prog, i + 1, nest)

\* mutant: the site is pushed whether or not its counter was zero
coverage_hit_PushAlways(st, id) ==
    [st EXCEPT !.new_coverage = Append(@, id),
               !.coverage[id] = @ + 1]

\* main.rs:141-145: if _coverage[id] == 0 { _new_coverage.push(id) }; _coverage[id] += 1
coverage_hit(st, id) ==
    [st EXCEPT !.new_coverage = IF st.coverage[id] = 0 THEN Append(@, id) ELSE @,
               !.coverage[id] = @ + 1]

\* mutant: a crash site seen for the first time is pushed as new coverage
crash_hit_AsCoverage(st, id) ==
    [st EXCEPT !.new_coverage = IF st.crashes[id] = 0 THEN Append(@, id) ELSE @,
               !.crashes[id] = @ + 1]

\* main.rs:155-165: if _crashes[id] == 0 { _new_crashes.push(id) }; _crashes[id] += 1; return
crash_hit(st, id) ==
    [st EXCEPT !.new_crashes = IF st.crashes[id] = 0 THEN Append(@, id) ELSE @,
               !.crashes[id] = @ + 1]

\* main.rs:201-203: _input[byte] & mask == target
PredicateHolds(input, tok) == And8(input[tok.a], tok.b) = tok.c

\* mutant: a crash site that does not return
RECURSIVE Exec_NoReturn(_, _, _, _)
Exec_NoReturn(prog, input, i, st) ==
    IF i > Len(prog) THEN st
    ELSE LET tok == prog[i]
         IN  IF tok.op = "cov" THEN Exec_NoReturn(prog, input, i + 1, coverage_hit(st, tok.a))
             ELSE IF tok.op = "crash" THEN Exec_NoReturn(prog, input, i + 1, crash_hit(st, tok.a))
             ELSE IF tok.op = "if"
                  THEN IF PredicateHolds(input, tok)
                       THEN Exec_NoReturn(prog, input, i + 1, st)
                       ELSE Exec_NoReturn(prog, input, SkipBlock(prog, i + 1, 1), st)
             ELSE Exec_NoReturn(prog, input, i + 1, st)

RECURSIVE Exec(_, _, _, _)
Exec(prog, input, i, st) ==
    IF i > Len(prog) THEN st
    ELSE LET tok == prog[i]
         IN  IF tok.op = "cov" THEN Exec(prog, input, i + 1, coverage_hit(st, tok.a))
             ELSE IF tok.op = "crash" THEN crash_hit(st, tok.a)
             ELSE IF tok.op = "if"
                  THEN IF PredicateHolds(input, tok)
                       THEN Exec(prog, input, i + 1, st)
                       ELSE Exec(prog, input, SkipBlock(prog, i + 1, 1), st)
             ELSE Exec(prog, input, i + 1, st)

\* fn crashme(_input, _coverage, _crashes, _new_coverage, _new_crashes)
crashme(prog, input, coverage, crashes) ==
    Exec(prog, input, 1, [coverage |-> coverage, crashes |-> crashes,
                          new_coverage |-> <<>>, new_crashes |-> <<>>])

\* The bool the harness receives from crashme (harness.rs:141).
new_coverage_found(r) == Len(r.new_coverage) > 0

(***************************************************************************)
(* Fuzzer (harness.rs:25-173).                                             *)
(***************************************************************************)
NUM_COVERAGE == consts.NUM_COVERAGE
NUM_CRASHES == consts.NUM_CRASHES
NUM_BYTES == consts.NUM_BYTES

Cores == 0 .. (MAX_SIMULATED_CORES - 1)

NoTime == [some |-> FALSE, num |-> 0, den |-> 1]

TimeConstraints == {NoTime} \cup {[some |-> TRUE, num |-> k, den |-> 2] : k \in 0 .. MaxTimeNum}

\* What the drivers set before a run (harness.rs:240-244, 372-375).
Configs ==
    [coverage_guided : BOOLEAN, shared_inputs : BOOLEAN, shared_results : BOOLEAN,
     workers : 1 .. MAX_SIMULATED_CORES, time_constraint : TimeConstraints]

NoResult == [tag |-> "None", num |-> 0, den |-> 1, n |-> 0]

\* Ok(uptime), uptime = cases as f64 / workers as f64 kept as a fraction
Ok(cases, workers) == [tag |-> "Ok", num |-> cases, den |-> workers, n |-> 0]

Err(found) == [tag |-> "Err", num |-> 0, den |-> 1, n |-> found]

ZeroInput == [b \in 0 .. (NUM_BYTES - 1) |-> 0]

ZeroCoverage == [id \in 0 .. (NUM_COVERAGE - 1) |-> 0]

ZeroCrashes == [id \in 0 .. (NUM_CRASHES - 1) |-> 0]

\* mutant: only the first shard is cleared
cleared_dbs_FirstOnly(n) == {0}

\* harness.rs:109, 114: the shard indices the setup loops visit
cleared_dbs(n) == 0 .. (n - 1)

\* The crash-counter shards.  crashme as emitted by main.rs:173-175 takes a
\* _crashes slice next to _coverage; harness.rs keeps no such array, so the
\* shards that are passed are modelled after the coverage shards: one per
\* simulated core, NUM_CRASHES slots each, cleared with the coverage shards
\* and resolved by the same index.
new_crash_shards == [c \in Cores |-> ZeroCrashes]

clear_crash_shards(crashes, nout) ==
    [odb \in Cores |-> IF odb \in cleared_dbs(nout) THEN ZeroCrashes ELSE crashes[odb]]

crash_shard(f, odb) == f.crashes[odb]

with_crash_shard(crashes, odb, shard) == [crashes EXCEPT ![odb] = shard]

\* Fuzzer::new (harness.rs:62-92), with the locals of start() not yet live
NewFuzzer ==
    [coverage_guided |-> FALSE, shared_inputs |-> FALSE, shared_results |-> FALSE,
     workers |-> 1, fuzz_cases |-> 0, time_constraint |-> NoTime,
     coverage |-> [c \in Cores |-> ZeroCoverage],
     crashes  |-> new_crash_shards,
     inputs   |-> [c \in Cores |-> <<>>],
     num_input_dbs |-> 1, num_output_dbs |-> 1,
     input |-> ZeroInput, cases |-> 0, worker |-> 0, new_coverage |-> FALSE,
     pc |-> "new", result |-> NoResult]

\* mutant: the sharing flag read the wrong way round
num_dbs_Inverted(shared, workers) == IF shared THEN workers ELSE 1

\* harness.rs:99-100
num_dbs(shared, workers) == IF shared THEN 1 ELSE workers

\* mutant: the filter keeps every slot (x >= 0)
found_coverage_AllSlots(cov) == Cardinality({id \in DOMAIN cov : cov[id] >= 0})

\* mutant: the count skips slot 0
found_coverage_SkipRoot(cov) == Cardinality({id \in DOMAIN cov \ {0} : cov[id] > 0})

\* harness.rs:152, 163: coverage.iter().filter(|&&x| x > 0).count()
found_coverage(cov) == Cardinality({id \in DOMAIN cov : cov[id] > 0})

\* harness.rs:166: coverage.len()
coverage_len(cov) == Cardinality(DOMAIN cov)

\* mutant: the comparison without the is_some() guard; Some(x) >= None holds
timed_out_Unguarded(f) ==
    \/ ~f.time_constraint.some
    \/ f.cases * f.time_constraint.den >= f.time_constraint.num * f.workers

\* mutant: the uptime has to exceed the constraint
timed_out_Strict(f) ==
    /\ f.time_constraint.some
    /\ f.cases * f.time_constraint.den > f.time_constraint.num * f.workers

\* harness.rs:148-149: Some(uptime) >= self.time_constraint
timed_out(f) ==
    /\ f.time_constraint.some
    /\ f.cases * f.time_constraint.den >= f.time_constraint.num * f.workers

\* harness.rs:240-244 and 96-116: the driver's configuration, then the
\* setup of start() up to the fuzz loop
setup(f, cfg) ==
    LET nin  == num_dbs(cfg.shared_inputs, cfg.workers)
        nout == num_dbs(cfg.shared_results, cfg.workers)
    IN  [f EXCEPT
           !.coverage_guided = cfg.coverage_guided,
           !.shared_inputs   = cfg.shared_inputs,
           !.shared_results  = cfg.shared_results,
           !.workers         = cfg.workers,
           !.time_constraint = cfg.time_constraint,
           !.num_input_dbs   = nin,
           !.num_output_dbs  = nout,
           !.input           = ZeroInput,
           !.cases           = 0,
           !.inputs   = [idb \in Cores |-> IF idb \in cleared_dbs(nin) THEN <<>> ELSE @[idb]],
           !.coverage = [odb \in Cores |-> IF odb \in cleared_dbs(nout) THEN ZeroCoverage ELSE @[odb]],
           !.crashes  = clear_crash_shards(@, nout),
           !.worker = 0, !.new_coverage = FALSE,
           !.pc = "loop", !.result = NoResult]

\* harness.rs:125-126: the shards resolved for the worker being visited
input_shard(f) == f.worker % f.num_input_dbs

\* mutant: the coverage shard resolved with the corpus shard count
output_shard_ByInputDbs(f) == f.worker % f.num_input_dbs

\* mutant: the coverage shard resolved without the modulo
output_shard_ByWorker(f) == f.worker

output_shard(f) == f.worker % f.num_output_dbs

\* harness.rs:129: does this iteration select an input from the corpus
selects(f) == f.coverage_guided /\ Len(f.inputs[input_shard(f)]) > 0

\* mutant: without a selection the buffer restarts from zero
selected_Reset(f, d) ==
    IF selects(f)
    THEN LET input_db == f.inputs[input_shard(f)]
         IN  input_db[(d[1] % Len(input_db)) + 1]
    ELSE ZeroInput

\* harness.rs:129-132: the buffer after the selection; d is the stream of
\* rand() values of this iteration
selected(f, d) ==
    IF selects(f)
    THEN LET input_db == f.inputs[input_shard(f)]
         IN  input_db[(d[1] % Len(input_db)) + 1]
    ELSE f.input

\* harness.rs:136: the number of bytes replaced
mutations(f, d) == (d[IF selects(f) THEN 2 ELSE 1] % MUT_MOD) + 1

\* harness.rs:136-138: input[rng.rand() % input.len()] = rng.rand() as u8,
\* the value drawn before the index; k is the stream position of the j-th
\* replacement
\* mutant: every replacement lands on byte 0
RECURSIVE mutate_ByteZero(_, _, _, _)
mutate_ByteZero(input, d, k, n) ==
    IF n = 0 THEN input
    ELSE mutate_ByteZero([input EXCEPT ![0] = AsU8(d[k])], d, k + 2, n - 1)

RECURSIVE mutate(_, _, _, _)
mutate(input, d, k, n) ==
    IF n = 0 THEN input
    ELSE mutate([input EXCEPT ![d[k + 1] % NUM_BYTES] = AsU8(d[k])], d, k + 2, n - 1)

mutated(f, d) ==
    mutate(selected(f, d), d, IF selects(f) THEN 3 ELSE 2, mutations(f, d))

\* harness.rs:120: the worker the for loop visits next
next_worker(f) == IF f.worker + 1 < f.workers THEN f.worker + 1 ELSE 0

\* harness.rs:121-142: the case counter, the input of this iteration, the
\* evaluator call on the resolved coverage shard
run_case(f, input) ==
    LET odb   == output_shard(f)
        r     == crashme(program, input, f.coverage[odb], crash_shard(f, odb))
    IN  [f EXCEPT !.cases = @ + 1, !.input = input,
                  !.coverage[odb] = r.coverage,
                  !.crashes = with_crash_shard(@, odb, r.crashes),
                  !.fuzz_cases = @ + 1,
                  !.new_coverage = new_coverage_found(r)]

\* mutant: the new-coverage handling placed before the timeout check
decide_CoverageFirst(f) ==
    LET idb == input_shard(f)
        odb == output_shard(f)
        f2  == IF f.new_coverage THEN [f EXCEPT !.inputs[idb] = Append(@, f.input)] ELSE f
    IN  IF f.new_coverage /\ found_coverage(f2.coverage[odb]) = coverage_len(f2.coverage[odb])
        THEN [f2 EXCEPT !.pc = "ret", !.result = Ok(f2.cases, f2.workers)]
        ELSE IF timed_out(f2)
        THEN [f2 EXCEPT !.pc = "ret", !.result = Err(found_coverage(f2.coverage[odb]))]
        ELSE [f2 EXCEPT !.worker = next_worker(f2)]

\* mutant: the input is saved whether or not it found new coverage
decide_SaveAlways(f) ==
    LET idb == input_shard(f)
        odb == output_shard(f)
    IN  IF timed_out(f)
        THEN [f EXCEPT !.pc = "ret", !.result = Err(found_coverage(f.coverage[odb]))]
        ELSE LET f2 == [f EXCEPT !.inputs[idb] = Append(@, f.input)]
             IN  IF f.new_coverage /\ found_coverage(f2.coverage[odb]) = coverage_len(f2.coverage[odb])
                 THEN [f2 EXCEPT !.pc = "ret", !.result = Ok(f2.cases, f2.workers)]
                 ELSE [f2 EXCEPT !.worker = next_worker(f2)]

\* mutant: Ok needs every crash site discovered as well
decide_CoverageAndCrashes(f) ==
    LET idb == input_shard(f)
        odb == output_shard(f)
    IN  IF timed_out(f)
        THEN [f EXCEPT !.pc = "ret", !.result = Err(found_coverage(f.coverage[odb]))]
        ELSE IF f.new_coverage
        THEN LET f2 == [f EXCEPT !.inputs[idb] = Append(@, f.input)]
             IN  IF /\ found_coverage(f2.coverage[odb]) = coverage_len(f2.coverage[odb])
                    /\ found_coverage(crash_shard(f2, odb)) = coverage_len(crash_shard(f2, odb))
                 THEN [f2 EXCEPT !.pc = "ret", !.result = Ok(f2.cases, f2.workers)]
                 ELSE [f2 EXCEPT !.worker = next_worker(f2)]
        ELSE [f EXCEPT !.worker = next_worker(f)]

\* harness.rs:144-169: the timeout check, then the new-coverage handling
decide(f) ==
    LET idb == input_shard(f)
        odb == output_shard(f)
    IN  IF timed_out(f)
        THEN [f EXCEPT !.pc = "ret", !.result = Err(found_coverage(f.coverage[odb]))]
        ELSE IF f.new_coverage
        THEN LET f2 == [f EXCEPT !.inputs[idb] = Append(@, f.input)]
             IN  IF found_coverage(f2.coverage[odb]) = coverage_len(f2.coverage[odb])
                 THEN [f2 EXCEPT !.pc = "ret", !.result = Ok(f2.cases, f2.workers)]
                 ELSE [f2 EXCEPT !.worker = next_worker(f2)]
        ELSE [f EXCEPT !.worker = next_worker(f)]

\* harness.rs:120-170: one iteration of the worker loop
iterate(f, d) == decide(run_case(f, mutated(f, d)))

(***************************************************************************)
(* The rand() streams one iteration can consume.                           *)
(***************************************************************************)
\* raw values for the corpus pick rand() % input_db.len()
RawPick == {0, 1, 2}
\* raw values for the count draw rand() % 8 + 1
RawCount == 0 .. (MUT_MOD - 1)
\* raw values for the byte value rand() as u8
RawVal == {0, 255}
\* raw values for the byte index rand() % input.len()
RawOff == 0 .. (NUM_BYTES - 1)

RECURSIVE MutStreams(_)
MutStreams(n) ==
    IF n = 0 THEN {<<>>}
    ELSE {<<v, o>> \o t : v \in RawVal, o \in RawOff, t \in MutStreams(n - 1)}

Streams(f) ==
    LET heads == IF selects(f)
                 THEN {<<p, c>> : p \in RawPick, c \in RawCount}
                 ELSE {<<c>> : c \in RawCount}
    IN  UNION {{h \o t : t \in MutStreams((h[Len(h)] % MUT_MOD) + 1)} : h \in heads}

(***************************************************************************)
(* Targets the engine is run against: final states of proggen.             *)
(***************************************************************************)
\* the root block alone
TargetRoot ==
    [program |-> <<Tok("cov", 0, 0, 0)>>,
     used_bits |-> {}, allocs |-> <<>>, alloc_failures |-> 0,
     num_blocks |-> 1, num_crashes |-> 0, build |-> <<0, 0>>]

\* a nested block and an uninstrumented crash inside it
TargetNested ==
    [program |-> <<Tok("cov", 0, 0, 0), Tok("if", 0, 1, 1), Tok("cov", 1, 0, 0),
                   Tok("if", 1, 1, 1), Tok("crash", 0, 0, 0), Tok("end", 0, 0, 0),
                   Tok("end", 0, 0, 0)>>,
     used_bits |-> {0, 8}, allocs |-> <<Some(0, 0), Some(8, 8)>>,
     alloc_failures |-> 0, num_blocks |-> 2, num_crashes |-> 1, build |-> <<2, 1>>]

\* an uninstrumented crash guarding a block
TargetGuarded ==
    [program |-> <<Tok("cov", 0, 0, 0),
                   Tok("if", 0, 1, 1), Tok("crash", 0, 0, 0), Tok("end", 0, 0, 0),
                   Tok("if", 1, 1, 1), Tok("cov", 1, 0, 0), Tok("end", 0, 0, 0)>>,
     used_bits |-> {0, 8}, allocs |-> <<Some(0, 0), Some(8, 8)>>,
     alloc_failures |-> 0, num_blocks |-> 2, num_crashes |-> 1, build |-> <<2, 1>>]

\* a block that ends in a crash, then a sibling block
TargetSiblings ==
    [program |-> <<Tok("cov", 0, 0, 0),
                   Tok("if", 0, 1, 1), Tok("cov", 1, 0, 0), Tok("crash", 0, 0, 0),
                   Tok("end", 0, 0, 0),
                   Tok("if", 1, 1, 1), Tok("cov", 2, 0, 0), Tok("end", 0, 0, 0)>>,
     used_bits |-> {0, 8}, allocs |-> <<Some(0, 0), Some(8, 8)>>,
     alloc_failures |-> 0, num_blocks |-> 3, num_crashes |-> 1, build |-> <<2, 1>>]

Targets == {TargetRoot, TargetNested, TargetGuarded, TargetSiblings}

\* proggen has exited with target t as its result (main.rs:243-256)
Generated(t) ==
    /\ program = t.program
    /\ used_bits = t.used_bits
    /\ allocs = t.allocs
    /\ alloc_failures = t.alloc_failures
    /\ num_blocks = t.num_blocks
    /\ num_crashes = t.num_crashes
    /\ depth = 1
    /\ consts = [set |-> TRUE, NUM_CRASHES |-> t.num_crashes,
                 NUM_COVERAGE |-> t.num_blocks, NUM_BYTES |-> NumBytes]
    /\ gpc = "exit"
    /\ min_blocks = t.build[1]
    /\ min_crashes = t.build[2]

(***************************************************************************)
(* Specification of proggen.                                               *)
(***************************************************************************)
GenInit ==
    /\ \E build \in Builds : GenStart(build)
    /\ fz = <<>>

\* the harness built with the generated program constructs its Fuzzer
\* (harness.rs:62-92, 368)
Construct ==
    /\ gpc = "exit"
    /\ fz = <<>>
    /\ fz' = [i \in 1 .. 2 |-> NewFuzzer]
    /\ UNCHANGED genvars

SpecGenNext == GenIf \/ GenEndBlock \/ GenDone \/ GenFinish \/ Construct

SpecGen == GenInit /\ [][SpecGenNext]_vars

(***************************************************************************)
(* Specification of proggen with the done draw forced: rand() % DONE_CHANCE*)
(* is 0 whenever line 239 evaluates it.                                    *)
(***************************************************************************)
GenDoneForced == GenDoneDraw({0})

SpecForcedNext == GenIf \/ GenEndBlock \/ GenDoneForced \/ GenFinish \/ Construct

SpecForced == GenInit /\ [][SpecForcedNext]_vars

(***************************************************************************)
(* Specification of the engine: one Fuzzer, started any number of times    *)
(* by its driver against a generated target.                               *)
(***************************************************************************)
Init ==
    /\ \E t \in Targets : Generated(t)
    /\ fz = [i \in 1 .. 2 |-> NewFuzzer]

\* the driver configures the Fuzzer and calls start(): setup (harness.rs:96-116)
Start ==
    /\ fz[1].pc \in {"new", "ret"}
    /\ fz[1].fuzz_cases < MaxFuzzCases
    /\ \E cfg \in Configs : fz' = [fz EXCEPT ![1] = setup(fz[1], cfg)]
    /\ UNCHANGED genvars

\* one iteration of the worker loop of start() (harness.rs:120-170)
Iterate ==
    /\ fz[1].pc = "loop"
    /\ fz[1].fuzz_cases < MaxFuzzCases
    /\ \E input \in {mutated(fz[1], d) : d \in Streams(fz[1])} :
          fz' = [fz EXCEPT ![1] = decide(run_case(fz[1], input))]
    /\ UNCHANGED genvars

Next == Start \/ Iterate

Spec == Init /\ [][Next]_vars

(***************************************************************************)
(* Specification of two runs side by side: Fuzzer 2 has been started       *)
(* before (its shards hold what those runs left), Fuzzer 1 has not; then   *)
(* both are started with one configuration and their Rng hands both the    *)
(* same values, iteration by iteration.                                    *)
(***************************************************************************)
\* the longest stream one iteration consumes (harness.rs:131-137)
StreamLen == 2 + 2 * MUT_MOD

\* the stream d continued with the Rng's following values, here zeros
Continued(d) == d \o [k \in 1 .. (StreamLen - Len(d)) |-> 0]

\* an earlier call of start() on Fuzzer 2
HistStart ==
    /\ fz[1].pc = "new"
    /\ fz[2].pc \in {"new", "ret"}
    /\ fz[2].fuzz_cases < MaxHistCases
    /\ \E cfg \in Configs : fz' = [fz EXCEPT ![2] = setup(fz[2], cfg)]
    /\ UNCHANGED genvars

HistIterate ==
    /\ fz[1].pc = "new"
    /\ fz[2].pc = "loop"
    /\ fz[2].fuzz_cases < MaxHistCases
    /\ \E input \in {mutated(fz[2], d) : d \in Streams(fz[2])} :
          fz' = [fz EXCEPT ![2] = decide(run_case(fz[2], input))]
    /\ UNCHANGED genvars

\* both Fuzzers are configured alike and started
PairStart ==
    /\ fz[1].pc = "new"
    /\ fz[2].pc \in {"new", "ret"}
    /\ \E cfg \in Configs :
          fz' = [fz EXCEPT ![1] = setup(fz[1], cfg), ![2] = setup(fz[2], cfg)]
    /\ UNCHANGED genvars

\* both run one iteration on the same rand() values
PairIterate ==
    /\ fz[1].pc = "loop"
    /\ fz[2].pc = "loop"
    /\ fz[1].fuzz_cases < MaxPairCases
    /\ \E nxt \in {<<iterate(fz[1], Continued(d)), iterate(fz[2], Continued(d))>> :
                       d \in Streams(fz[1])} :
          fz' = [fz EXCEPT ![1] = nxt[1], ![2] = nxt[2]]
    /\ UNCHANGED genvars

PairNext == HistStart \/ HistIterate \/ PairStart \/ PairIterate

SpecPair == Init /\ [][PairNext]_vars

(***************************************************************************)
(* Specification of one run without a time constraint, for termination.    *)
(* The loop has no bound of its own.  start() and crashme test the u64     *)
(* counters against zero only (main.rs:141-145, harness.rs:152, 163), and  *)
(* without a time constraint cases is not read before the return, so each  *)
(* counter is kept as zero or nonzero.                                     *)
(***************************************************************************)
nonzero(x) == IF x > 0 THEN 1 ELSE 0

saturate(f) ==
    [f EXCEPT !.cases      = nonzero(@),
              !.fuzz_cases = nonzero(@),
              !.coverage   = [c \in Cores |-> [id \in DOMAIN @[c] |-> nonzero(@[c][id])]],
              !.crashes    = [c \in Cores |-> [id \in DOMAIN @[c] |-> nonzero(@[c][id])]]]

\* the configurations without a time constraint (harness.rs:91, 240-244)
LiveConfigs == {cfg \in Configs : ~cfg.time_constraint.some}

\* the input buffers the byte draws can produce
LiveInputs == [0 .. (NumBytes - 1) -> {AsU8(v) : v \in RawVal}]

LiveStart ==
    /\ fz[1].pc = "new"
    /\ \E cfg \in LiveConfigs : fz' = [fz EXCEPT ![1] = setup(fz[1], cfg)]
    /\ UNCHANGED genvars

\* the iteration of worker w whose draws mutate the buffer into input: the
\* evaluator call, then the checks of start(), then the counters kept as
\* zero or nonzero
LiveIterate(w, input) ==
    /\ fz[1].pc = "loop"
    /\ fz[1].worker = w
    /\ input \in {mutated(fz[1], d) : d \in Streams(fz[1])}
    /\ \E ran \in {run_case(fz[1], input)} :
       \E dec \in {decide(ran)} :
       \E nxt \in {saturate(dec)} : fz' = [fz EXCEPT ![1] = nxt]
    /\ UNCHANGED genvars

LiveNext == LiveStart \/ \E w \in Cores : \E input \in LiveInputs : LiveIterate(w, input)

\* every mutation outcome that is possible again and again at a worker's
\* turn is eventually drawn there
LiveFairness == \A w \in Cores : \A input \in LiveInputs : SF_vars(LiveIterate(w, input))

SpecLive == Init /\ [][LiveNext]_vars /\ LiveFairness

(***************************************************************************)
(* Specification of time-constrained runs: the driver sets a time          *)
(* constraint before every start() (harness.rs:244, 363); an iteration     *)
(* that has begun always completes.                                        *)
(***************************************************************************)
\* the configurations with a time constraint
TimedConfigs == {cfg \in Configs : cfg.time_constraint.some}

TimedStart ==
    /\ fz[1].pc = "new"
    /\ \E cfg \in TimedConfigs : fz' = [fz EXCEPT ![1] = setup(fz[1], cfg)]
    /\ UNCHANGED genvars

\* one iteration of the worker loop (harness.rs:120-170)
TimedIterate ==
    /\ fz[1].pc = "loop"
    /\ \E input \in {mutated(fz[1], d) : d \in Streams(fz[1])} :
       \E ran \in {run_case(fz[1], input)} :
       \E dec \in {decide(ran)} : fz' = [fz EXCEPT ![1] = dec]
    /\ UNCHANGED genvars

TimedNext == TimedStart \/ TimedIterate

SpecTimed == Init /\ [][TimedNext]_vars /\ WF_vars(TimedIterate)

(***************************************************************************)
(* Properties.                                                             *)
(***************************************************************************)
\* the successful bit allocations of this generation run so far
Granted == {i \in 1 .. Len(allocs) : allocs[i].found}

Bits(r) == r.start .. r.end

\* C1: the bit ranges returned by the successful find_unused_bits! calls of
\* one generation run are pairwise disjoint, lie in [0, MAX_INPUT_SIZE_BITS)
\* and do not cross a byte boundary (start/8 = end/8).
C1_RangesDisjointInByte ==
    /\ \A i \in Granted :
         /\ 0 <= allocs[i].start
         /\ allocs[i].start <= allocs[i].end
         /\ allocs[i].end < MAX_INPUT_SIZE_BITS
         /\ allocs[i].start \div 8 = allocs[i].end \div 8
    /\ \A i \in Granted : \A j \in Granted :
         i # j => Bits(allocs[i]) \cap Bits(allocs[j]) = {}

\* C1 witness: two ranges were granted and they lie inside one byte.
C1_Witness ==
    /\ Cardinality(Granted) = 2
    /\ \E i \in Granted : \E j \in Granted :
         i # j /\ allocs[i].start \div 8 = allocs[j].start \div 8

\* the step is one iteration of the worker loop of fuzzer 1
IterStep == fz[1].pc = "loop" /\ fz'[1].cases = fz[1].cases + 1

Returned(tag) == fz[1].pc = "ret" /\ fz[1].result.tag = tag

\* the shard indices of the worker being visited, from the configuration
InShard(f) == f.worker % (IF f.shared_inputs THEN 1 ELSE f.workers)

OutShard(f) == f.worker % (IF f.shared_results THEN 1 ELSE f.workers)

Discovered(cov) == {id \in 0 .. (NUM_COVERAGE - 1) : cov[id] # 0}

\* C2: when start has returned Ok(t), every coverage site of the shard
\* resolved for the current worker has a nonzero counter, and t is the case
\* counter over the worker count.
C2_OkMeansFullCoverage ==
    Returned("Ok") =>
        /\ \A id \in 0 .. (NUM_COVERAGE - 1) : fz[1].coverage[OutShard(fz[1])][id] > 0
        /\ fz[1].result.num = fz[1].cases
        /\ fz[1].result.den = fz[1].workers

\* C2 witness: Ok(3/2) on a target with two coverage sites, two workers,
\* unshared results.
C2_Witness ==
    /\ Returned("Ok")
    /\ NUM_COVERAGE = 2
    /\ fz[1].workers = 2
    /\ ~fz[1].shared_results
    /\ fz[1].cases = 3

\* C3 as claimed: when start has returned Err(n), n is the discovered count
\* of the resolved shard and n is strictly less than the number of sites.
C3_ErrStrictlyLess ==
    Returned("Err") =>
        /\ fz[1].result.n = Cardinality(Discovered(fz[1].coverage[OutShard(fz[1])]))
        /\ fz[1].result.n < NUM_COVERAGE

\* C3 amended: when start has returned Err(n), a time constraint is set and
\* cases/workers has reached it, n is the discovered count of the resolved
\* shard, n is at most the number of sites, and n equals it only if the last
\* evaluator call reported new coverage.
C3_ErrCountAtTimeout ==
    Returned("Err") =>
        /\ fz[1].time_constraint.some
        /\ fz[1].cases * fz[1].time_constraint.den
              >= fz[1].time_constraint.num * fz[1].workers
        /\ fz[1].result.n = Cardinality(Discovered(fz[1].coverage[OutShard(fz[1])]))
        /\ fz[1].result.n <= NUM_COVERAGE
        /\ fz[1].result.n = NUM_COVERAGE => fz[1].new_coverage

\* C3 witness: Err(1) on a target with two sites, in the second iteration.
C3_Witness ==
    /\ Returned("Err")
    /\ NUM_COVERAGE = 2
    /\ fz[1].result.n = 1
    /\ fz[1].cases = 2

\* C4: an iteration whose case count reaches a set time constraint returns
\* Err in that iteration, after the evaluator call (the call is counted and
\* the root counter of the resolved shard has grown) and without appending
\* to any corpus or returning Ok, whatever the call found.
C4_TimeoutFirst ==
    [][(/\ IterStep
        /\ fz[1].time_constraint.some
        /\ (fz[1].cases + 1) * fz[1].time_constraint.den
              >= fz[1].time_constraint.num * fz[1].workers)
       => (/\ fz'[1].pc = "ret"
           /\ fz'[1].result.tag = "Err"
           /\ fz'[1].inputs = fz[1].inputs
           /\ fz'[1].fuzz_cases = fz[1].fuzz_cases + 1
           /\ fz'[1].coverage[OutShard(fz[1])][0]
                 = fz[1].coverage[OutShard(fz[1])][0] + 1)]_vars

\* C4 witness: Err returned by an iteration whose evaluator call completed
\* the coverage of a two-site target; the input was not saved.
C4_Witness ==
    /\ Returned("Err")
    /\ NUM_COVERAGE = 2
    /\ fz[1].new_coverage
    /\ fz[1].result.n = 2
    /\ \A k \in 1 .. Len(fz[1].inputs[InShard(fz[1])]) :
          fz[1].inputs[InShard(fz[1])][k] # fz[1].input

\* C5: in an iteration no corpus shard shrinks or changes an entry; a shard
\* grows only if it is the shard resolved for the worker and the evaluator
\* reported new coverage, and then by exactly one entry.
C5_CorpusAppendOnly ==
    [][IterStep =>
        \A c \in Cores :
           /\ Len(fz'[1].inputs[c]) >= Len(fz[1].inputs[c])
           /\ SubSeq(fz'[1].inputs[c], 1, Len(fz[1].inputs[c])) = fz[1].inputs[c]
           /\ Len(fz'[1].inputs[c]) > Len(fz[1].inputs[c]) =>
                 /\ c = InShard(fz[1])
                 /\ Len(fz'[1].inputs[c]) = Len(fz[1].inputs[c]) + 1
                 /\ fz'[1].new_coverage]_vars

\* C5 witness: a shard holds two entries and the last iteration, which
\* found nothing new, left it so.
C5_Witness ==
    /\ fz[1].pc = "loop"
    /\ Len(fz[1].inputs[0]) = 2
    /\ ~fz[1].new_coverage
    /\ fz[1].cases = 3

\* C6: in an iteration no coverage counter and no crash counter of any
\* shard decreases, and only counters of the shard resolved for the worker
\* change.
C6_CountersMonotone ==
    [][IterStep =>
        \A c \in Cores :
           /\ \A id \in 0 .. (NUM_COVERAGE - 1) :
                 fz'[1].coverage[c][id] >= fz[1].coverage[c][id]
           /\ \A id \in 0 .. (NUM_CRASHES - 1) :
                 fz'[1].crashes[c][id] >= fz[1].crashes[c][id]
           /\ c # OutShard(fz[1]) =>
                 /\ fz'[1].coverage[c] = fz[1].coverage[c]
                 /\ fz'[1].crashes[c] = fz[1].crashes[c]]_vars

\* C6 witness: in a run with shared inputs and unshared results both coverage
\* shards have counted, a coverage counter stands at 2 and a crash counter
\* is nonzero.
C6_Witness ==
    /\ fz[1].pc = "loop"
    /\ fz[1].workers = 2 /\ ~fz[1].shared_results /\ fz[1].shared_inputs
    /\ fz[1].coverage[0][0] = 2
    /\ fz[1].coverage[1][0] >= 1
    /\ \E c \in Cores : \E id \in 0 .. (NUM_CRASHES - 1) : fz[1].crashes[c][id] > 0

\* the positions of the program that emit site id of kind op
Sites(op, id) == {i \in 1 .. Len(program) : program[i].op = op /\ program[i].a = id}

SitesOf(op) == {i \in 1 .. Len(program) : program[i].op = op}

\* C7: coverage-site ids 0 .. num_blocks-1 and crash-site ids
\* 0 .. num_crashes-1 are each emitted exactly once and no other id is
\* emitted, id 0 is the site of the root block, the reported NUM_COVERAGE and
\* NUM_CRASHES equal the numbers of sites emitted, and every shard of a
\* constructed Fuzzer has exactly NUM_COVERAGE coverage slots and NUM_CRASHES
\* crash slots.
C7_SiteIdsAndCounts ==
    /\ \A id \in 0 .. (num_blocks - 1) : Cardinality(Sites("cov", id)) = 1
    /\ \A id \in 0 .. (num_crashes - 1) : Cardinality(Sites("crash", id)) = 1
    /\ Cardinality(SitesOf("cov")) = num_blocks
    /\ Cardinality(SitesOf("crash")) = num_crashes
    /\ program[1] = Tok("cov", 0, 0, 0)
    /\ consts.set =>
          /\ NUM_COVERAGE = Cardinality(SitesOf("cov"))
          /\ NUM_CRASHES = Cardinality(SitesOf("crash"))
    /\ fz # <<>> =>
          \A i \in DOMAIN fz : \A c \in Cores :
             /\ DOMAIN fz[i].coverage[c] = 0 .. (NUM_COVERAGE - 1)
             /\ DOMAIN fz[i].crashes[c] = 0 .. (NUM_CRASHES - 1)
             /\ Cardinality(DOMAIN fz[i].coverage[c]) = Cardinality(SitesOf("cov"))
             /\ Cardinality(DOMAIN fz[i].crashes[c]) = Cardinality(SitesOf("crash"))

\* C7 witness: a Fuzzer constructed for a generated program with three
\* coverage sites and two crash sites.
C7_Witness ==
    /\ gpc = "exit"
    /\ fz # <<>>
    /\ NUM_COVERAGE = 3
    /\ NUM_CRASHES = 2

\* the sum of g[s] over the shards s < n
RECURSIVE SumShards(_, _)
SumShards(g, n) == IF n = 0 THEN 0 ELSE g[n - 1] + SumShards(g, n - 1)

\* C9: in every run of a Fuzzer that may have run before under other
\* configurations, the shards resolved for the worker lie inside the ranges
\* the setup of this run cleared, and the cleared shards hold only what this
\* run put there: their root counters add up to the cases of this run, no
\* counter exceeds the root counter of its shard, and together the corpus
\* shards hold at most one entry per case.
C9_RunUsesOnlyClearedShards ==
    fz[1].pc \in {"loop", "ret"} =>
        LET f    == fz[1]
            nin  == IF f.shared_inputs THEN 1 ELSE f.workers
            nout == IF f.shared_results THEN 1 ELSE f.workers
        IN  /\ nin \in 1 .. MAX_SIMULATED_CORES
            /\ nout \in 1 .. MAX_SIMULATED_CORES
            /\ input_shard(f) \in cleared_dbs(nin)
            /\ output_shard(f) \in cleared_dbs(nout)
            /\ SumShards([s \in Cores |-> f.coverage[s][0]], nout) = f.cases
            /\ \A s \in 0 .. (nout - 1) : \A id \in 0 .. (NUM_COVERAGE - 1) :
                  f.coverage[s][id] <= f.coverage[s][0]
            /\ \A s \in 0 .. (nout - 1) :
                  SumShards([id \in 0 .. (NUM_CRASHES - 1) |-> f.crashes[s][id]], NUM_CRASHES)
                     <= f.coverage[s][0]
            /\ SumShards([s \in Cores |-> Len(f.inputs[s])], nin) <= f.cases

\* C9 witness: a run on one shared shard is under way while a shard outside
\* the cleared range still holds counters and a corpus entry of an earlier
\* run.
C9_Witness ==
    /\ fz[1].pc = "loop"
    /\ fz[1].cases >= 1
    /\ fz[1].shared_inputs /\ fz[1].shared_results
    /\ fz[1].coverage[1][0] > 0
    /\ Len(fz[1].inputs[1]) > 0

\* C8: two runs started with the same configuration on the same target and
\* fed the same rand() values agree at every step on the mutated input, on
\* the case counter, on the worker visited, on what the evaluator reported,
\* and on whether and what start() has returned.
C8_SameInputsSameOutcome ==
    fz[1].pc # "new" =>
        /\ fz[1].input = fz[2].input
        /\ fz[1].cases = fz[2].cases
        /\ fz[1].worker = fz[2].worker
        /\ fz[1].new_coverage = fz[2].new_coverage
        /\ fz[1].pc = fz[2].pc
        /\ fz[1].result = fz[2].result

\* C8 witness: both guided runs returned after two iterations with the same
\* outcome, although Fuzzer 2 had run before and its arrays differ from
\* those of Fuzzer 1.
C8_Witness ==
    /\ fz[1].pc = "ret" /\ fz[2].pc = "ret"
    /\ fz[1].result = fz[2].result
    /\ fz[1].coverage_guided
    /\ fz[1].cases = 2
    /\ fz[2].fuzz_cases > fz[1].fuzz_cases
    /\ fz[2].coverage # fz[1].coverage
    /\ fz[2].inputs # fz[1].inputs

\* C10 as claimed: without a time constraint every run of start() on a
\* generated target eventually returns Ok, guided or not, whatever the
\* sharing flags.
C10_EveryRunReturnsOk ==
    (fz[1].pc = "loop") ~> Returned("Ok")

\* C10 amended: without a time constraint every run of start() that is not
\* coverage guided eventually returns Ok, whatever the sharing flags.
C10_UnguidedRunReturnsOk ==
    (fz[1].pc = "loop" /\ ~fz[1].coverage_guided) ~> Returned("Ok")

\* C10 witness: an unguided run of two workers with unshared results and
\* corpora returned Ok on the target whose two blocks need different
\* inputs, after the crash site was hit on both shards.
C10_Witness ==
    /\ Returned("Ok")
    /\ ~fz[1].coverage_guided
    /\ fz[1].workers = 2 /\ ~fz[1].shared_results /\ ~fz[1].shared_inputs
    /\ Generated(TargetSiblings)
    /\ \A c \in Cores : fz[1].crashes[c][0] > 0

\* the target has the root site alone
RootOnly == NUM_COVERAGE = 1 /\ NUM_CRASHES = 0

\* C11 as claimed: a run against a target with the root site alone returns
\* after its first evaluator call, and what it returns is Ok(t) with
\* t <= 1/workers.
C11_RootRunReturnsOk ==
    RootOnly =>
        /\ fz[1].pc = "loop" => fz[1].cases = 0
        /\ fz[1].pc = "ret" =>
              /\ fz[1].result.tag = "Ok"
              /\ fz[1].result.num * fz[1].workers <= fz[1].result.den

\* C11 amended: a run against a target with the root site alone returns
\* after its first evaluator call, made for worker 0 with the case counter
\* at 1: Err(1) if a time constraint of at most 1/workers is set, and
\* otherwise Ok(1/workers).
C11_RootRunFirstIteration ==
    RootOnly =>
        /\ fz[1].pc = "loop" => fz[1].cases = 0
        /\ fz[1].pc = "ret" =>
              /\ fz[1].cases = 1
              /\ fz[1].worker = 0
              /\ IF /\ fz[1].time_constraint.some
                    /\ fz[1].time_constraint.num * fz[1].workers <= fz[1].time_constraint.den
                 THEN fz[1].result = Err(1)
                 ELSE /\ fz[1].result = Ok(1, fz[1].workers)
                      /\ fz[1].result.num * fz[1].workers <= fz[1].result.den

\* C11 witness: two workers, a time constraint of 1 that the first
\* iteration does not reach, Ok(1/2).
C11_Witness ==
    /\ RootOnly
    /\ Returned("Ok")
    /\ fz[1].workers = 2
    /\ fz[1].time_constraint.some
    /\ fz[1].result.num = 1 /\ fz[1].result.den = 2

\* proggen has exited in the build with MIN_BLOCKS = 0 and MIN_CRASHES = 0
ExitedMinZero == gpc = "exit" /\ min_blocks = 0 /\ min_crashes = 0

\* C12 as claimed: with MIN_BLOCKS = 0, MIN_CRASHES = 0 and the done draw
\* forced, the generated target has exactly one coverage site and no crash
\* site, whatever the other draws.
C12_ForcedDoneRootOnly ==
    ExitedMinZero => num_blocks = 1 /\ num_crashes = 0

\* C12 amended: with MIN_BLOCKS = 0, MIN_CRASHES = 0 and the done draw
\* forced, the loop body runs once: at most one predicate is opened, the
\* target has at most two coverage sites and at most one crash site, and it
\* has the root site alone exactly when no predicate was opened.
C12_ForcedDoneOneIteration ==
    ExitedMinZero =>
        /\ Len(allocs) <= 1
        /\ NumIfs <= 1
        /\ num_blocks \in {1, 2}
        /\ num_crashes \in {0, 1}
        /\ NumIfs = Cardinality(Granted)
        /\ (NumIfs = 0) <=> (num_blocks = 1 /\ num_crashes = 0)
        /\ consts.NUM_COVERAGE = num_blocks /\ consts.NUM_CRASHES = num_crashes

\* C12 witness: the generator exited with the root site alone after an
\* iteration whose bit allocation failed.
C12_Witness ==
    /\ ExitedMinZero
    /\ num_blocks = 1 /\ num_crashes = 0
    /\ Len(allocs) = 1 /\ ~allocs[1].found

\* the generator exited with the root site alone after an iteration that
\* drew no predicate
C12_WitnessNoDraw ==
    /\ ExitedMinZero
    /\ num_blocks = 1 /\ num_crashes = 0
    /\ allocs = <<>>

\* the crash sites whose counter the step changed on the shard odb
Fired(odb) ==
    {id \in 0 .. (NUM_CRASHES - 1) : fz'[1].crashes[odb][id] # fz[1].crashes[odb][id]}

\* the position of the one token that emits site id of kind op
SiteAt(op, id) == CHOOSE i \in Sites(op, id) : TRUE

\* C13: in an evaluator call at most one crash site fires; its counter goes
\* up by one, and no site emitted after it in the program, coverage or
\* crash, changes its counter in that call.
C13_CrashEndsCall ==
    [][IterStep =>
        LET odb == OutShard(fz[1])
        IN  /\ Cardinality(Fired(odb)) <= 1
            /\ \A id \in Fired(odb) :
                  /\ fz'[1].crashes[odb][id] = fz[1].crashes[odb][id] + 1
                  /\ \A i \in (SiteAt("crash", id) + 1) .. Len(program) :
                        /\ program[i].op = "cov" =>
                              fz'[1].coverage[odb][program[i].a]
                                 = fz[1].coverage[odb][program[i].a]
                        /\ program[i].op = "crash" =>
                              fz'[1].crashes[odb][program[i].a]
                                 = fz[1].crashes[odb][program[i].a]]_vars

\* C13 witness: the crash site fired on an input that also satisfies the
\* predicate of a block emitted after it, and that block's site is still
\* undiscovered.
C13_Witness ==
    /\ Generated(TargetGuarded)
    /\ fz[1].pc = "loop"
    /\ fz[1].input = [b \in 0 .. (NUM_BYTES - 1) |-> 255]
    /\ fz[1].crashes[0][0] = fz[1].cases
    /\ fz[1].coverage[0][1] = 0
    /\ fz[1].cases = 2 /\ fz[1].workers = 1

\* the step is a bit-allocation request: find_unused_bits! was called
Requested == Len(allocs') = Len(allocs) + 1

\* C14: a bit-allocation request that returns nothing leaves the claimed
\* bits as they were; one that returns a range adds exactly the bits of
\* that range, none of which was claimed; no other step changes the claimed
\* bits.
C14_FailedRequestNoEffect ==
    [][/\ Requested =>
            LET ret == allocs'[Len(allocs')]
            IN  IF ret.found
                THEN /\ used_bits' = used_bits \cup Bits(ret)
                     /\ Bits(ret) \cap used_bits = {}
                ELSE used_bits' = used_bits
       /\ ~Requested => used_bits' = used_bits]_vars

\* C14 witness: after a granted request a second request failed, and the
\* claimed bits are those of the first.
C14_Witness ==
    /\ Len(allocs) = 2
    /\ allocs[1].found /\ ~allocs[2].found
    /\ used_bits = Bits(allocs[1])
    /\ Cardinality(used_bits) = 1

\* n closing brackets
Ends(n) == [k \in 1 .. n |-> Tok("end", 0, 0, 0)]

\* C15: the request whose failure brings alloc_failures to
\* MAX_ALLOC_FAILURES ends the loop in that iteration, without an end-block
\* or done step and whatever MIN_BLOCKS and MIN_CRASHES are; leaving the
\* loop, the generator closes every open block and reports the site counts
\* it has.
C15_AllocFailureStopsLoop ==
    [][/\ (/\ Requested
           /\ ~allocs'[Len(allocs')].found
           /\ alloc_failures + 1 >= MAX_ALLOC_FAILURES)
          => /\ gpc' = "close"
             /\ alloc_failures' = alloc_failures + 1
             /\ <<program, depth, num_blocks, num_crashes>>'
                   = <<program, depth, num_blocks, num_crashes>>
       /\ gpc = "close"
          => /\ gpc' = "exit"
             /\ depth' = 1
             /\ program' = program \o Ends(depth - 1)
             /\ <<num_blocks, num_crashes>>' = <<num_blocks, num_crashes>>
             /\ consts' = [set |-> TRUE, NUM_CRASHES |-> num_crashes,
                           NUM_COVERAGE |-> num_blocks, NUM_BYTES |-> NumBytes]]_vars

\* C15 witness: the generator exited after an allocation failure with two
\* coverage sites where MIN_BLOCKS is 5000, the block that was open is
\* closed and the counts are reported.
C15_Witness ==
    /\ gpc = "exit"
    /\ alloc_failures = MAX_ALLOC_FAILURES
    /\ min_blocks = 5000 /\ num_blocks = 2 /\ num_crashes = 0
    /\ program[Len(program)].op = "end" /\ program[Len(program) - 1].op = "cov"
    /\ consts.set /\ consts.NUM_COVERAGE = 2 /\ consts.NUM_CRASHES = 0

\* the shard a worker is to use under a sharing flag
ShardOf(shared, w) == IF shared THEN 0 ELSE w

\* C16: the worker being visited is one of the run's workers; the shards
\* resolved for it are shard 0 under sharing and its own index otherwise;
\* an iteration changes no coverage shard but that one, which counts the
\* call, and no corpus shard but that one.
C16_ShardPerWorker ==
    [][fz[1].pc = "loop" =>
        LET f == fz[1]
            w == f.worker
        IN  /\ w \in 0 .. (f.workers - 1)
            /\ f.num_input_dbs = (IF f.shared_inputs THEN 1 ELSE f.workers)
            /\ f.num_output_dbs = (IF f.shared_results THEN 1 ELSE f.workers)
            /\ input_shard(f) = ShardOf(f.shared_inputs, w)
            /\ output_shard(f) = ShardOf(f.shared_results, w)
            /\ IterStep =>
                  /\ {c \in Cores : fz'[1].coverage[c] # f.coverage[c]}
                        = {ShardOf(f.shared_results, w)}
                  /\ {c \in Cores : fz'[1].inputs[c] # f.inputs[c]}
                        \subseteq {ShardOf(f.shared_inputs, w)}]_vars

\* C16 witness: the first run of a Fuzzer, two workers, corpus shared and
\* results not: each worker has counted on its own coverage shard and both
\* saved their input to corpus shard 0.
C16_Witness ==
    /\ fz[1].pc = "loop"
    /\ fz[1].fuzz_cases = fz[1].cases /\ fz[1].cases = 2
    /\ fz[1].workers = 2 /\ fz[1].shared_inputs /\ ~fz[1].shared_results
    /\ fz[1].coverage[0][0] = 1 /\ fz[1].coverage[1][0] = 1
    /\ Len(fz[1].inputs[0]) = 2 /\ fz[1].inputs[1] = <<>>

\* every counter of the coverage shard is nonzero
Full(cov) == \A id \in 0 .. (NUM_COVERAGE - 1) : cov[id] # 0

\* C17: while start() has not returned, no coverage shard the run uses has
\* every counter nonzero; the iteration that makes the resolved shard full
\* returns, Ok unless its case count has reached a set time constraint, and
\* an iteration that leaves the resolved shard short of full does not
\* return Ok, whatever the crash counters are.
C17_ReturnsWhenShardFull ==
    [][/\ fz[1].pc = "loop" =>
            \A s \in 0 .. (fz[1].num_output_dbs - 1) : ~Full(fz[1].coverage[s])
       /\ IterStep =>
            LET odb == OutShard(fz[1])
                timeout == /\ fz[1].time_constraint.some
                           /\ (fz[1].cases + 1) * fz[1].time_constraint.den
                                 >= fz[1].time_constraint.num * fz[1].workers
            IN  IF Full(fz'[1].coverage[odb])
                THEN /\ fz'[1].pc = "ret"
                     /\ fz'[1].result.tag = (IF timeout THEN "Err" ELSE "Ok")
                ELSE fz'[1].result.tag # "Ok"]_vars

\* C17 witness: Ok was returned in the second iteration on a target with a
\* crash site that no call of the run has reached.
C17_Witness ==
    /\ Returned("Ok")
    /\ NUM_CRASHES = 1 /\ NUM_COVERAGE = 2
    /\ fz[1].cases = 2 /\ fz[1].workers = 1
    /\ fz[1].fuzz_cases = 2
    /\ fz[1].crashes[0][0] = 0
    /\ Full(fz[1].coverage[0])

\* the number of tokens op in a program
NumOp(prog, op) == Cardinality({i \in 1 .. Len(prog) : prog[i].op = op})

\* C18: the nesting depth is never below 1; over every generator step it
\* changes by the predicates opened minus the blocks closed in that step;
\* the end-block step of the loop closes a block only at depth > 1; and
\* when generation has finished the depth is 1 and as many blocks were
\* closed as predicates opened.
C18_DepthTracksOpenBlocks ==
    [][/\ depth >= 1 /\ depth' >= 1
       /\ depth' - depth
             = (NumOp(program', "if") - NumOp(program, "if"))
               - (NumOp(program', "end") - NumOp(program, "end"))
       /\ depth - 1 = NumOp(program, "if") - NumOp(program, "end")
       /\ (gpc = "end" /\ NumOp(program', "end") > NumOp(program, "end"))
             => depth > 1
       /\ gpc' = "exit"
             => /\ depth' = 1
                /\ NumOp(program', "end") = NumOp(program', "if")]_vars

\* C18 witness: generation finished with two predicates nested and both
\* closed by the bracket clean-up after the loop.
C18_Witness ==
    /\ gpc = "exit" /\ depth = 1
    /\ NumOp(program, "if") = 2 /\ NumOp(program, "end") = 2
    /\ Len(program) = 7
    /\ program[5].op = "cov" /\ program[6].op = "end" /\ program[7].op = "end"

\* the number of bytes in which two buffers differ
DiffBytes(a, b) == Cardinality({i \in DOMAIN a : a[i] # b[i]})

\* the iteration about to run copies a corpus entry into the buffer
Picks == /\ fz[1].coverage_guided
         /\ Len(fz[1].inputs[InShard(fz[1])]) > 0

\* C19: an iteration of a run that is not coverage-guided, or whose
\* resolved corpus is empty, leaves the one input buffer as the previous
\* iteration left it except for the bytes its mutation replaces, at most
\* MUT_MOD of them; an iteration of a guided run with a non-empty resolved
\* corpus leaves it as an entry of that corpus except for at most MUT_MOD
\* bytes.
C19_BufferCarriesOver ==
    [][IterStep =>
         IF Picks
         THEN \E k \in 1 .. Len(fz[1].inputs[InShard(fz[1])]) :
                 DiffBytes(fz'[1].input, fz[1].inputs[InShard(fz[1])][k]) <= MUT_MOD
         ELSE DiffBytes(fz'[1].input, fz[1].input) <= MUT_MOD]_vars

\* C19 witness: two workers of an unguided run have run one case each,
\* each replacing one byte, and the buffer holds both replacements.
C19_Witness ==
    /\ fz[1].pc = "loop"
    /\ ~fz[1].coverage_guided
    /\ fz[1].workers = 2 /\ fz[1].cases = 2 /\ fz[1].worker = 0
    /\ NUM_BYTES = 2
    /\ fz[1].input = [b \in 0 .. 1 |-> 255]

\* the coverage sites of shard odb that the step takes from zero to nonzero
Transitions(odb) ==
    {id \in 0 .. (NUM_COVERAGE - 1) :
        fz[1].coverage[odb][id] = 0 /\ fz'[1].coverage[odb][id] # 0}

\* C20: the evaluator call of an iteration reports new coverage exactly
\* when a coverage counter of the shard it was given goes from zero to
\* nonzero in that call; a call that takes no coverage counter from zero,
\* whatever crash site it fires, reports none and leaves every corpus as
\* it was.
C20_NewCoverageIffTransition ==
    [][IterStep =>
         /\ fz'[1].new_coverage <=> Transitions(OutShard(fz[1])) # {}
         /\ Transitions(OutShard(fz[1])) = {} => fz'[1].inputs = fz[1].inputs]_vars

\* C20 witness: the second call of a guided run fired the crash site for
\* the first time and the root site for the second; it reported no new
\* coverage and the corpus still holds the first input only.
C20_Witness ==
    /\ Generated(TargetGuarded)
    /\ fz[1].pc = "loop" /\ fz[1].coverage_guided
    /\ fz[1].workers = 1 /\ fz[1].cases = 2
    /\ fz[1].coverage[0][0] = 2 /\ fz[1].coverage[0][1] = 0
    /\ fz[1].crashes[0][0] = 1
    /\ ~fz[1].new_coverage
    /\ Len(fz[1].inputs[0]) = 1

\* the corpus entries of the corpus shards the run uses
CorpusTotal ==
    SumShards([s \in Cores |-> Len(fz[1].inputs[s])], fz[1].num_input_dbs)

\* the nonzero counters of the coverage shards the run uses
CoverageTotal ==
    SumShards([s \in Cores |-> Cardinality(Discovered(fz[1].coverage[s]))],
              fz[1].num_output_dbs)

\* C21: once start() has set a run up, the corpus shards the run uses hold
\* together at most as many entries as the coverage shards it uses have
\* nonzero counters; under shared results that is at most the number of
\* sites discovered in shard 0, hence at most NUM_COVERAGE.
C21_CorpusAtMostDiscovered ==
    fz[1].pc \in {"loop", "ret"} =>
        /\ CorpusTotal <= CoverageTotal
        /\ fz[1].shared_results =>
              /\ CorpusTotal <= Cardinality(Discovered(fz[1].coverage[0]))
              /\ CorpusTotal <= NUM_COVERAGE

\* C21 witness: two workers with a corpus each and one shared coverage
\* shard have saved one input each, and two sites are discovered.
C21_Witness ==
    /\ fz[1].pc = "loop"
    /\ fz[1].workers = 2 /\ ~fz[1].shared_inputs /\ fz[1].shared_results
    /\ Len(fz[1].inputs[0]) = 1 /\ Len(fz[1].inputs[1]) = 1
    /\ CorpusTotal = 2 /\ CoverageTotal = 2

\* the smallest c >= 1 with c / workers >= time_constraint, which is
\* max(1, ceil(time_constraint * workers))
LastCase(f) ==
    LET tw == f.time_constraint.num * f.workers
        c  == (tw + f.time_constraint.den - 1) \div f.time_constraint.den
    IN  IF c >= 1 THEN c ELSE 1

\* C22: a run with a time constraint returns; while it has not, fewer
\* than LastCase evaluator calls were made; when it has, at least one and
\* at most LastCase were made, and exactly LastCase if it returned Err.
C22_TimedRunReturns ==
    /\ [](fz[1].pc = "loop" => fz[1].cases < LastCase(fz[1]))
    /\ [](fz[1].pc = "ret" =>
            /\ fz[1].cases >= 1
            /\ fz[1].cases <= LastCase(fz[1])
            /\ fz[1].result.tag = "Err" => fz[1].cases = LastCase(fz[1]))
    /\ (fz[1].pc = "loop") ~> (fz[1].pc = "ret")

\* C22 witness: two workers under a time constraint of 1 returned Err
\* after the second case.
C22_Witness ==
    /\ Returned("Err")
    /\ fz[1].workers = 2
    /\ fz[1].time_constraint = [some |-> TRUE, num |-> 2, den |-> 2]
    /\ fz[1].cases = 2

\* the predicates of the program so far whose block starts with a site op
OpenedWith(op) ==
    {i \in 1 .. Len(program) :
        /\ program[i].op = "if"
        /\ i < Len(program)
        /\ program[i + 1].op = op}

\* the counts of a generation run against its successful bit allocations
SiteCountsBounded ==
    /\ used_bits \subseteq 0 .. (MAX_INPUT_SIZE_BITS - 1)
    /\ Cardinality(Granted) <= Cardinality(used_bits)
    /\ NumOp(program, "if") = Cardinality(Granted)
    /\ Cardinality(OpenedWith("cov")) + Cardinality(OpenedWith("crash"))
          = NumOp(program, "if")
    /\ num_blocks = 1 + Cardinality(OpenedWith("cov"))
    /\ num_crashes <= NumOp(program, "if")
    /\ num_blocks <= MAX_INPUT_SIZE_BITS + 1
    /\ num_crashes <= MAX_INPUT_SIZE_BITS

\* C23: every successful bit allocation claims a bit of the input no other
\* has, so there are at most MAX_INPUT_SIZE_BITS of them; every predicate
\* opened starts with a coverage site or with an uninstrumented crash site
\* and gets at most one crash site, so num_blocks <= MAX_INPUT_SIZE_BITS + 1
\* and num_crashes <= MAX_INPUT_SIZE_BITS; the loop is left by the done
\* draw only with both minimums met, so with a minimum above these bounds
\* it is left only after MAX_ALLOC_FAILURES allocation failures.
C23_SitesBoundedByInputBits ==
    [][/\ SiteCountsBounded /\ SiteCountsBounded'
       /\ (gpc = "done" /\ gpc' = "close")
             => num_blocks >= min_blocks /\ num_crashes >= min_crashes
       /\ (/\ gpc # "close" /\ gpc' = "close"
           /\ (\/ min_blocks > MAX_INPUT_SIZE_BITS + 1
               \/ min_crashes > MAX_INPUT_SIZE_BITS))
             => /\ gpc = "if"
                /\ alloc_failures' >= MAX_ALLOC_FAILURES
                /\ ~allocs'[Len(allocs')].found]_vars

\* C23 witness: with MIN_BLOCKS at 5000 the generator exited after an
\* allocation failure; its one predicate opened with a coverage site and
\* got a crash site at its end.
C23_Witness ==
    /\ gpc = "exit"
    /\ min_blocks = 5000 /\ min_blocks > MAX_INPUT_SIZE_BITS + 1
    /\ alloc_failures = MAX_ALLOC_FAILURES
    /\ Cardinality(Granted) = 1
    /\ num_blocks = 2 /\ num_crashes = 1
====
